---- MODULE Spec2Model ----
(***************************************************************************)
(* Hybrid retrieval of src/src/tools.py: the corpus loaded from the store, *)
(* the semantic and the lexical retriever with their shared result count   *)
(* k, the ensemble's weighted reciprocal rank fusion, and vector_search.   *)
(*                                                                         *)
(* A document is named by its 1-based position in `documents`; a           *)
(* retriever's answer and the fused list are sequences of positions.       *)
(* Scores are Python floats, computed bit for bit; the properties compare  *)
(* them with the exact sums, kept as fractions (ten times the score:       *)
(* weights 7 and 3).                                                       *)
(***************************************************************************)
EXTENDS Integers, Sequences, FiniteSets, TLC

VARIABLES
    collection,     \* tools.py:21-25   what the collection of the store holds
    initPc,         \* the line the module's top-level code is at
    documents,      \* tools.py:26-33   the corpus, a sequence of Documents
    semRank,        \* tools.py:36      semantic index: query -> all positions, nearest first
    lexRank,        \* tools.py:40      lexical index: query -> all positions, best score first
    semK,           \* tools.py:37,66   vectorstore_retriever.search_kwargs["k"]
    lexK,           \* tools.py:41,67   keyword_retriever.k
    pc,             \* per call: the line of vector_search it is at
    query,          \* per call: argument query
    n_results,      \* per call: argument n_results
    semDocs,        \* per call: the semantic retriever's answer (line 78)
    lexDocs,        \* per call: the lexical retriever's answer (line 78)
    semKUsed,       \* per call: the k the semantic retrieval ran with
    lexKUsed,       \* per call: the k the lexical retrieval ran with
    entryK,         \* per call: <<semK, lexK>> as the call found them on entry
    results,        \* per call: results of line 78, the ensemble's fused list
    search_results  \* per call: the returned list of records (lines 81-91)

vars == <<collection, initPc, documents, semRank, lexRank, semK, lexK, pc, query, n_results,
          semDocs, lexDocs, semKUsed, lexKUsed, entryK, results, search_results>>

index == <<collection, initPc, documents, semRank, lexRank>>

(***************************************************************************)
(* Bounds and program constants.                                           *)
(***************************************************************************)
MaxN == 3            \* largest n_results a caller passes
NegDepth == 1        \* n_results goes down to -NegDepth
InitialK == 5        \* tools.py:37 and :41
SemWeight == 7       \* tools.py:46, weights[0] = 0.7, in tenths
LexWeight == 3       \* tools.py:46, weights[1] = 0.3, in tenths
RRF_C == 60          \* EnsembleRetriever.c, left at its default at tools.py:44

Procs == {1, 2}
Queries == {"", " ", "X"}
NResults == (0 - NegDepth) .. MaxN
NoK == 0 - 99        \* "retrieval has not run yet" in semKUsed / lexKUsed

Min(a, b) == IF a < b THEN a ELSE b
Max(a, b) == IF a > b THEN a ELSE b

(***************************************************************************)
(* The store and the corpus loader (tools.py:25-33).                       *)
(***************************************************************************)
Absent == "<absent>"       \* a metadata key that is not in the mapping

Meta(s, j) == [source_file |-> s, json_file |-> j]
EmptyMeta == Meta(Absent, Absent)          \* {}  (also what `None or {}` gives)

\* What collection.get(include=['documents','metadatas']) can hand back:
\* the texts, and either a list of per-item metadata (a mapping or None) or
\* no list at all.
StoreEntry(docs, hasMetas, metas, noneAt) ==
    [documents |-> docs, hasMetadatas |-> hasMetas, metadatas |-> metas,
     noneAt |-> noneAt]

Stores ==
    { StoreEntry(<<>>, TRUE, <<>>, {}),
      StoreEntry(<<"a", "b", "c">>, TRUE,
                 <<Meta("s1", "j1"), Meta(Absent, "j2"), EmptyMeta>>, {3}),
      StoreEntry(<<"a", "a", "b">>, TRUE,
                 <<Meta("s1", "j1"), Meta("s2", "j2"), Meta("s3", Absent)>>, {}),
      StoreEntry(<<"a", "b">>, FALSE, <<>>, {}),
      StoreEntry(<<"a", "b", "c">>, TRUE, <<Meta("s1", "j1")>>, {}) }

\* `if all_results['metadatas']`: there is a list and it is not empty
HasMetadataList(store) == store.hasMetadatas /\ store.metadatas # <<>>

\* all_results['metadatas'][i] exists for every i the loop reaches
Loadable(store) ==
    HasMetadataList(store) => Len(store.metadatas) >= Len(store.documents)

\* mutant: the last item of the collection is left out
LoadDocumentsButLast(store) ==
    [i \in 1 .. (Len(store.documents) - 1) |->
        [page_content |-> store.documents[i], metadata |-> EmptyMeta]]

\* tools.py:28-33
LoadDocuments(store) ==
    [i \in 1 .. Len(store.documents) |->
        [page_content |-> store.documents[i],
         metadata |-> IF HasMetadataList(store) /\ i \notin store.noneAt
                      THEN store.metadatas[i]
                      ELSE EmptyMeta]]

\* the documents appended before metadatas[i] raises IndexError
LoadedBeforeError(store) ==
    [i \in 1 .. Len(store.metadatas) |->
        [page_content |-> store.documents[i],
         metadata |-> IF i \notin store.noneAt THEN store.metadatas[i] ELSE EmptyMeta]]

(***************************************************************************)
(* Sequences of positions.                                                 *)
(***************************************************************************)
Perms(n) ==
    { s \in [1 .. n -> 1 .. n] : \A i, j \in 1 .. n : i # j => s[i] # s[j] }

Identity(n) == [i \in 1 .. n |-> i]
Reversed(n) == [i \in 1 .. n |-> n + 1 - i]

\* Python's s[:n]
PySlice(s, n) ==
    IF n >= 0 THEN SubSeq(s, 1, Min(n, Len(s)))
    ELSE SubSeq(s, 1, Max(Len(s) + n, 0))

Blank(q) == q \in {"", " "}

(***************************************************************************)
(* The two retrievers.  Each index answers a query with its k best         *)
(* documents; k is read from the retriever object when retrieval runs.     *)
(***************************************************************************)
\* mutant: the vector store answers whatever count it is asked for
SemAnswersAnyCount(k) == TRUE

\* tools.py:78   the vector store checks the requested count before it
\* searches: a count of zero or less is an error, not an empty answer
SemAnswers(k) == k > 0

\* vectorstore.similarity_search(query, k = search_kwargs["k"])  (tools.py:36-37):
\* the k nearest, all of them when the index holds fewer
SemRetrieve(q, k) == SubSeq(semRank[q], 1, Max(0, Min(k, Len(semRank[q]))))

\* BM25Retriever: get_top_n(tokens, docs, n = self.k)  (tools.py:40-41)
LexRetrieve(q, k) == PySlice(lexRank[q], k)

(***************************************************************************)
(* The scores of the code are Python floats (IEEE 754 binary64, round to   *)
(* nearest, ties to even).  A float is <<m, e>>, value m * 2^e, with m a   *)
(* 53-bit integer (2^52 <= m < 2^53) held as six limbs of 14 bits, most    *)
(* significant first; zero is <<0, 0>>.  Only non-negative normal numbers  *)
(* occur.                                                                  *)
(***************************************************************************)
LimbBase == 2^14
BigZero == <<0, 0, 0, 0, 0, 0>>

BigOfInt(n) ==
    <<0, 0, 0, n \div (LimbBase * LimbBase), (n \div LimbBase) % LimbBase, n % LimbBase>>

\* the limbs i .. 1 of x * k, carry coming from the limbs below
RECURSIVE MulFrom(_, _, _, _, _)
MulFrom(x, k, i, carry, done) ==
    IF i = 0 THEN done
    ELSE MulFrom(x, k, i - 1, (x[i] * k + carry) \div LimbBase,
                 <<(x[i] * k + carry) % LimbBase>> \o done)

\* x * k for 0 < k <= 2^15
BigMulSmall(x, k) == MulFrom(x, k, 6, 0, <<>>)

RECURSIVE AddFrom(_, _, _, _, _)
AddFrom(x, y, i, carry, done) ==
    IF i = 0 THEN done
    ELSE AddFrom(x, y, i - 1, (x[i] + y[i] + carry) \div LimbBase,
                 <<(x[i] + y[i] + carry) % LimbBase>> \o done)

BigAdd(x, y) == AddFrom(x, y, 6, 0, <<>>)

\* long division, limb by limb from the top
RECURSIVE DivFrom(_, _, _, _, _)
DivFrom(x, d, i, rem, done) ==
    IF i > 6 THEN <<done, rem>>
    ELSE DivFrom(x, d, i + 1, (rem * LimbBase + x[i]) % d,
                 Append(done, (rem * LimbBase + x[i]) \div d))

\* <<x \div d, x % d>> for 0 < d <= 2^15
BigDivSmall(x, d) == DivFrom(x, d, 1, 0, <<>>)

RECURSIVE GeqFrom(_, _, _)
GeqFrom(x, y, i) ==
    IF i > 6 THEN TRUE
    ELSE IF x[i] # y[i] THEN x[i] > y[i]
    ELSE GeqFrom(x, y, i + 1)

BigGeq(x, y) == GeqFrom(x, y, 1)

\* the number of bits of x
RECURSIVE SmallBits(_)
SmallBits(n) == IF n = 0 THEN 0 ELSE 1 + SmallBits(n \div 2)

RECURSIVE BitLenFrom(_, _)
BitLenFrom(x, i) ==
    IF i > 6 THEN 0
    ELSE IF x[i] # 0 THEN 14 * (6 - i) + SmallBits(x[i])
    ELSE BitLenFrom(x, i + 1)

BitLen(x) == BitLenFrom(x, 1)

RECURSIVE ShiftLeft(_, _)
ShiftLeft(x, s) ==
    IF s <= 14 THEN BigMulSmall(x, 2^s)
    ELSE ShiftLeft(BigMulSmall(x, LimbBase), s - 14)

\* <<x \div 2^n, whether a 1 bit was shifted out>>
RECURSIVE ShiftRightSticky(_, _)
ShiftRightSticky(x, n) ==
    IF n = 0 THEN <<x, FALSE>>
    ELSE IF n > 84 THEN <<BigZero, x # BigZero>>
    ELSE LET qr == BigDivSmall(x, 2^Min(n, 14))
             rest == ShiftRightSticky(qr[1], n - Min(n, 14))
         IN <<rest[1], rest[2] \/ qr[2] # 0>>

\* x \div 2^k rounded to nearest, ties to even; sticky: x was already cut
RECURSIVE RoundDrop(_, _, _)
RoundDrop(x, k, sticky) ==
    IF k > 14
    THEN LET qr == BigDivSmall(x, LimbBase)
         IN RoundDrop(qr[1], k - 14, sticky \/ qr[2] # 0)
    ELSE LET qr == BigDivSmall(x, 2^k)
             half == 2^(k - 1)
             up == \/ qr[2] > half
                   \/ qr[2] = half /\ (sticky \/ qr[1][6] % 2 = 1)
         IN IF up THEN BigAdd(qr[1], BigOfInt(1)) ELSE qr[1]

FloatZero == <<BigZero, 0>>

\* the float nearest to x * 2^e
RoundToFloat(x, e, sticky) ==
    LET n == BitLen(x)
    IN IF n = 0 THEN FloatZero
       ELSE IF n <= 53 THEN <<ShiftLeft(x, 53 - n), e - (53 - n)>>
       ELSE LET r == RoundDrop(x, n - 53, sticky)
            IN IF BitLen(r) > 53
               THEN <<BigDivSmall(r, 2)[1], e + (n - 53) + 1>>
               ELSE <<r, e + (n - 53)>>

FloatOfInt(n) == RoundToFloat(BigOfInt(n), 0, FALSE)

\* x / d for an integer 0 < d < 2^13: the quotient is taken to 55 bits or
\* more, the remainder is the sticky bit
FloatDiv(x, d) ==
    IF x = FloatZero THEN FloatZero
    ELSE LET qr == BigDivSmall(BigMulSmall(x[1], 2^15), d)
         IN RoundToFloat(qr[1], x[2] - 15, qr[2] # 0)

\* x + y
FloatAdd(x, y) ==
    IF x = FloatZero THEN y
    ELSE IF y = FloatZero THEN x
    ELSE LET hi == IF x[2] >= y[2] THEN x ELSE y
             lo == IF x[2] >= y[2] THEN y ELSE x
             diff == hi[2] - lo[2]
         IN IF diff <= 15
            THEN RoundToFloat(BigAdd(ShiftLeft(hi[1], diff), lo[1]), lo[2], FALSE)
            ELSE LET cut == ShiftRightSticky(lo[1], diff - 15)
                 IN RoundToFloat(BigAdd(ShiftLeft(hi[1], 15), cut[1]), hi[2] - 15, cut[2])

\* x >= y
FloatGeq(x, y) ==
    IF y = FloatZero THEN TRUE
    ELSE IF x = FloatZero THEN FALSE
    ELSE IF x[2] # y[2] THEN x[2] > y[2]
    ELSE BigGeq(x[1], y[1])

(***************************************************************************)
(* EnsembleRetriever(retrievers = [semantic, lexical], weights = [0.7,     *)
(* 0.3]) (tools.py:44-47): weighted reciprocal rank fusion.  A document is *)
(* keyed by its page_content alone.                                        *)
(***************************************************************************)
Key(d) == documents[d].page_content

\* the literals 0.7 and 0.3 are the floats nearest to 7/10 and 3/10
SemWeightFloat == FloatDiv(FloatOfInt(SemWeight), 10)
LexWeightFloat == FloatDiv(FloatOfInt(LexWeight), 10)

\* weight / (rank + c)
Contribution(weight, rank) == FloatDiv(weight, rank + RRF_C)

\* for rank, doc in enumerate(doc_list, start=1): rrf_score[key] += weight / (rank + c)
\* The ranks that hold another key add nothing to this key and are stepped
\* over; acc is rrf_score[key] so far.
RECURSIVE ListScore(_, _, _, _, _)
ListScore(key, doc_list, weight, rank, acc) ==
    LET hits == { r \in rank .. Len(doc_list) : Key(doc_list[r]) = key }
    IN IF hits = {} THEN acc
       ELSE LET r == CHOOSE x \in hits : \A y \in hits : x <= y
            IN ListScore(key, doc_list, weight, r + 1,
                         FloatAdd(acc, Contribution(weight, r)))

\* mutant: the two weights exchanged
RrfScoreSwapped(key, sem, lex) ==
    ListScore(key, lex, SemWeightFloat, 1,
              ListScore(key, sem, LexWeightFloat, 1, FloatZero))

\* rrf_score = defaultdict(float); the semantic list is added first, then
\* the lexical list
RrfScore(key, sem, lex) ==
    ListScore(key, lex, LexWeightFloat, 1,
              ListScore(key, sem, SemWeightFloat, 1, FloatZero))

\* mutant: no deduplication
NoDedup(docs, seen) == docs

\* unique_by_key(chain(doc_lists), key): the first document of each key, in order
UniqueByKey(docs, seen) ==
    LET firsts == { i \in 1 .. Len(docs) :
                      /\ Key(docs[i]) \notin seen
                      /\ \A j \in 1 .. (i - 1) : Key(docs[j]) # Key(docs[i]) }
        nth == [r \in 1 .. Cardinality(firsts) |->
                  CHOOSE i \in firsts : Cardinality({ j \in firsts : j <= i }) = r] \o <<>>
    IN [r \in 1 .. Cardinality(firsts) |-> docs[nth[r]]]

\* mutant: reverse=True forgotten, ascending order
KeepsAheadAscending(scoreAhead, scoreNew) == FloatGeq(scoreNew, scoreAhead)

\* mutant: among equal scores the later document goes first
KeepsAheadStrict(scoreAhead, scoreNew) == ~FloatGeq(scoreNew, scoreAhead)

\* sorted(..., reverse=True, key=score) is stable: a document stays ahead of
\* a later one of the sequence unless the later one scores strictly more.
KeepsAhead(scoreAhead, scoreNew) == FloatGeq(scoreAhead, scoreNew)

\* sorted(docs, key = rrf_score, reverse=True): the scores are computed once
\* per document; the document at input position i is placed behind every
\* earlier document that keeps ahead of it and every later one that beats it.
\* (`\o <<>>` makes a function over 1 .. n a sequence value, computed once.)
SortedByScore(docs, sem, lex) ==
    LET n == Len(docs)
        score == [i \in 1 .. n |-> RrfScore(Key(docs[i]), sem, lex)] \o <<>>
        Ahead(j, i) == IF j < i THEN KeepsAhead(score[j], score[i])
                       ELSE j # i /\ ~KeepsAhead(score[i], score[j])
        place == [i \in 1 .. n |-> 1 + Cardinality({ j \in 1 .. n : Ahead(j, i) })] \o <<>>
    IN [r \in 1 .. n |-> docs[CHOOSE i \in 1 .. n : place[i] = r]]

ChainedDocs(sem, lex) == sem \o lex

WeightedReciprocalRank(sem, lex) ==
    SortedByScore(UniqueByKey(ChainedDocs(sem, lex), {}), sem, lex)

(***************************************************************************)
(* vector_search, lines 80-91: the records.                                *)
(***************************************************************************)
\* mutant: doc.metadata[key], no default
MetaGetNoDefault(metadata, key, default) == metadata[key]

MetaGet(metadata, key, default) ==
    IF metadata[key] = Absent THEN default ELSE metadata[key]

\* mutant: 'rank': i
RankZeroBased(i) == i

\* enumerate counts from 0; 'rank': i + 1
RankOf(i) == i + 1

SearchRecord(d, i) ==
    [content |-> documents[d].page_content,
     source |-> MetaGet(documents[d].metadata, "source_file", "Unknown"),
     json_file |-> MetaGet(documents[d].metadata, "json_file", "Unknown"),
     search_type |-> "hybrid",
     rank |-> RankOf(i)]

\* mutant: the slice bound read back from the shared retriever
SharedSliceBound(p) == lexK

\* mutant: the slice bound read back from the semantic retriever's k
SliceBoundSemK(p) == semK

\* mutant: results[:n_results - 1]
SliceBoundOffByOne(p) == n_results[p] - 1

\* results[:n_results]
SliceBound(p) == n_results[p]

\* mutant: the slice of line 82 left out
NoTruncation(res, p) == res

Truncated(res, p) == PySlice(res, SliceBound(p))

FormatResults(res, p) ==
    [i \in 1 .. Len(Truncated(res, p)) |-> SearchRecord(Truncated(res, p)[i], i - 1)]

(***************************************************************************)
(* Module initialization (tools.py:15-49), run once when the module is     *)
(* imported.  An exception at any line ends the import: nothing catches    *)
(* it, nothing retries, and vector_search (line 51) is never defined.      *)
(***************************************************************************)
\* A blank query has no tokens: every BM25 score is 0 and the top-n order is
\* the reversed corpus; its semantic order is taken to be the corpus order.
RankingsOf(n) ==
    { r \in [Queries -> Perms(n)] :
        \A q \in Queries : Blank(q) => r[q] = Identity(n) }

LexRankingsOf(n) ==
    { r \in [Queries -> Perms(n)] :
        \A q \in Queries : Blank(q) => r[q] = Reversed(n) }

NotBuilt == [q \in Queries |-> <<>>]

Init ==
    /\ collection \in Stores
    /\ initPc = "l15"
    /\ documents = <<>>
    /\ semRank = NotBuilt
    /\ lexRank = NotBuilt
    /\ semK = NoK
    /\ lexK = NoK
    /\ pc = [p \in Procs |-> "idle"]
    /\ query = [p \in Procs |-> ""]
    /\ n_results = [p \in Procs |-> 0]
    /\ semDocs = [p \in Procs |-> <<>>]
    /\ lexDocs = [p \in Procs |-> <<>>]
    /\ semKUsed = [p \in Procs |-> NoK]
    /\ lexKUsed = [p \in Procs |-> NoK]
    /\ entryK = [p \in Procs |-> <<NoK, NoK>>]
    /\ results = [p \in Procs |-> <<>>]
    /\ search_results = [p \in Procs |-> <<>>]

calls == <<pc, query, n_results, semDocs, lexDocs, semKUsed, lexKUsed, entryK,
           results, search_results>>

\* tools.py:15-18   the embedding client is constructed
MakeEmbeddings ==
    /\ initPc = "l15"
    /\ initPc' = "l21"
    /\ UNCHANGED <<collection, documents, semRank, lexRank, semK, lexK, calls>>

\* tools.py:15-18   the constructor raises (no credential, bad model id)
FailEmbeddings ==
    /\ initPc = "l15"
    /\ initPc' = "aborted"
    /\ UNCHANGED <<collection, documents, semRank, lexRank, semK, lexK, calls>>

\* tools.py:21-22   the client opens the store and finds the collection
OpenStore ==
    /\ initPc = "l21"
    /\ initPc' = "l25"
    /\ UNCHANGED <<collection, documents, semRank, lexRank, semK, lexK, calls>>

\* tools.py:21-22   the store cannot be reached or has no such collection
FailOpenStore ==
    /\ initPc = "l21"
    /\ initPc' = "aborted"
    /\ UNCHANGED <<collection, documents, semRank, lexRank, semK, lexK, calls>>

\* tools.py:25-33   every item of the collection becomes a Document
LoadCorpus ==
    /\ initPc = "l25"
    /\ Loadable(collection)
    /\ documents' = LoadDocuments(collection)
    /\ initPc' = "l36"
    /\ UNCHANGED <<collection, semRank, lexRank, semK, lexK, calls>>

\* tools.py:25   collection.get raises: the store fails on the read
FailLoadCorpus ==
    /\ initPc = "l25"
    /\ initPc' = "aborted"
    /\ UNCHANGED <<collection, documents, semRank, lexRank, semK, lexK, calls>>

\* tools.py:28-33   the metadata list is shorter than the list of texts:
\* IndexError at the first text without an entry
FailLoadDocuments ==
    /\ initPc = "l25"
    /\ ~Loadable(collection)
    /\ documents' = LoadedBeforeError(collection)
    /\ initPc' = "aborted"
    /\ UNCHANGED <<collection, semRank, lexRank, semK, lexK, calls>>

\* tools.py:36   the documents are embedded and indexed
SemIndexOf(docs) == RankingsOf(Len(docs))

BuildSemantic ==
    /\ initPc = "l36"
    /\ semRank' \in SemIndexOf(documents)
    /\ initPc' = "l37"
    /\ UNCHANGED <<collection, documents, lexRank, semK, lexK, calls>>

\* tools.py:36   the embedding provider fails while the index is built
FailBuildSemantic ==
    /\ initPc = "l36"
    /\ initPc' = "aborted"
    /\ UNCHANGED <<collection, documents, semRank, lexRank, semK, lexK, calls>>

\* tools.py:37   the retriever over the vector store; k = 5
MakeSemanticRetriever ==
    /\ initPc = "l37"
    /\ semK' = InitialK
    /\ initPc' = "l40"
    /\ UNCHANGED <<collection, documents, semRank, lexRank, lexK, calls>>

\* tools.py:37   as_retriever raises
FailMakeSemanticRetriever ==
    /\ initPc = "l37"
    /\ initPc' = "aborted"
    /\ UNCHANGED <<collection, documents, semRank, lexRank, semK, lexK, calls>>

\* tools.py:40-41   the term index over the same documents; k = 5.
\* from_documents unzips the documents into texts and metadata, which
\* raises when there is no document: the index exists over a non-empty
\* corpus only.
LexIndexOf(docs) == LexRankingsOf(Len(docs))

BuildLexical ==
    /\ initPc = "l40"
    /\ documents # <<>>
    /\ lexRank' \in LexIndexOf(documents)
    /\ lexK' = InitialK
    /\ initPc' = "l44"
    /\ UNCHANGED <<collection, documents, semRank, semK, calls>>

\* tools.py:40   the build of the term index raises: always over an empty
\* corpus, and over any corpus when the library fails
FailBuildLexical ==
    /\ initPc = "l40"
    /\ initPc' = "aborted"
    /\ UNCHANGED <<collection, documents, semRank, lexRank, semK, lexK, calls>>

\* tools.py:44-49   the ensemble over the two retrievers; the module's code
\* has run through
BuildEnsemble ==
    /\ initPc = "l44"
    /\ initPc' = "ready"
    /\ UNCHANGED <<collection, documents, semRank, lexRank, semK, lexK, calls>>

\* tools.py:44-47   the construction of the ensemble raises: both
\* retrievers exist, each with k = 5, and the import ends all the same
FailBuildEnsemble ==
    /\ initPc = "l44"
    /\ initPc' = "aborted"
    /\ UNCHANGED <<collection, documents, semRank, lexRank, semK, lexK, calls>>

Initialize ==
    \/ MakeEmbeddings
    \/ FailEmbeddings
    \/ OpenStore
    \/ FailOpenStore
    \/ LoadCorpus
    \/ FailLoadCorpus
    \/ FailLoadDocuments
    \/ BuildSemantic
    \/ FailBuildSemantic
    \/ MakeSemanticRetriever
    \/ FailMakeSemanticRetriever
    \/ BuildLexical
    \/ FailBuildLexical
    \/ BuildEnsemble
    \/ FailBuildEnsemble

(***************************************************************************)
(* vector_search(query, n_results), one action per statement that touches  *)
(* shared state.                                                           *)
(***************************************************************************)
InFlight(p) == pc[p] \in {"l66", "l67", "l78sem", "l78lex", "l80"}

\* mutant: the function is callable whatever became of the import
CanCallAlways == TRUE

\* tools.py:51   vector_search exists once the module's code has run through
CanCall == initPc = "ready"

\* the call is entered: tools.py:51, 64
Call(p, q, n) ==
    /\ CanCall
    /\ ~InFlight(p)
    /\ pc' = [pc EXCEPT ![p] = "l66"]
    /\ query' = [query EXCEPT ![p] = q]
    /\ n_results' = [n_results EXCEPT ![p] = n]
    /\ semDocs' = [semDocs EXCEPT ![p] = <<>>]
    /\ lexDocs' = [lexDocs EXCEPT ![p] = <<>>]
    /\ semKUsed' = [semKUsed EXCEPT ![p] = NoK]
    /\ lexKUsed' = [lexKUsed EXCEPT ![p] = NoK]
    /\ entryK' = [entryK EXCEPT ![p] = <<semK, lexK>>]
    /\ results' = [results EXCEPT ![p] = <<>>]
    /\ search_results' = [search_results EXCEPT ![p] = <<>>]
    /\ UNCHANGED <<index, semK, lexK>>

\* mutant: line 66 left out
StaleSemK(p) == semK

\* tools.py:66   vectorstore_retriever.search_kwargs["k"] = n_results
NewSemK(p) == n_results[p]

SetSemK(p) ==
    /\ pc[p] = "l66"
    /\ semK' = NewSemK(p)
    /\ pc' = [pc EXCEPT ![p] = "l67"]
    /\ UNCHANGED <<index, lexK, query, n_results, semDocs, lexDocs, semKUsed,
                   lexKUsed, entryK, results, search_results>>

\* mutant: line 67 left out
StaleLexK(p) == lexK

\* tools.py:67   keyword_retriever.k = n_results
NewLexK(p) == n_results[p]

SetLexK(p) ==
    /\ pc[p] = "l67"
    /\ lexK' = NewLexK(p)
    /\ pc' = [pc EXCEPT ![p] = "l78sem"]
    /\ UNCHANGED <<index, semK, query, n_results, semDocs, lexDocs, semKUsed,
                   lexKUsed, entryK, results, search_results>>

\* tools.py:78, first retriever of the ensemble: the query is embedded and
\* the vector store is asked for the k nearest, k read now.
RetrieveSem(p) ==
    /\ pc[p] = "l78sem"
    /\ SemAnswers(semK)
    /\ semDocs' = [semDocs EXCEPT ![p] = SemRetrieve(query[p], semK)]
    /\ semKUsed' = [semKUsed EXCEPT ![p] = semK]
    /\ pc' = [pc EXCEPT ![p] = "l78lex"]
    /\ UNCHANGED <<index, semK, lexK, query, n_results, lexDocs, lexKUsed,
                   entryK, results, search_results>>

\* mutant: the failure is swallowed and the call goes on with the lexical leg
DegradeToLexical == "l78lex"

\* nothing in vector_search or the ensemble catches the exception
AfterSemFailure == "failed"

\* tools.py:78: the embedding call or the store raises (the store always
\* does for a k of zero or less); the exception leaves vector_search,
\* nothing is returned and k stays as written.
FailSem(p) ==
    /\ pc[p] = "l78sem"
    /\ pc' = [pc EXCEPT ![p] = AfterSemFailure]
    /\ UNCHANGED <<index, semK, lexK, query, n_results, semDocs, lexDocs,
                   semKUsed, lexKUsed, entryK, results, search_results>>

\* tools.py:78, second retriever of the ensemble, k read now.
RetrieveLex(p) ==
    /\ pc[p] = "l78lex"
    /\ lexDocs' = [lexDocs EXCEPT ![p] = LexRetrieve(query[p], lexK)]
    /\ lexKUsed' = [lexKUsed EXCEPT ![p] = lexK]
    /\ pc' = [pc EXCEPT ![p] = "l80"]
    /\ UNCHANGED <<index, semK, lexK, query, n_results, semDocs, semKUsed,
                   entryK, results, search_results>>

\* tools.py:78 (the fusion of the two answers) and 80-91
Return(p) ==
    /\ pc[p] = "l80"
    /\ results' = [results EXCEPT ![p] = WeightedReciprocalRank(semDocs[p], lexDocs[p])]
    /\ search_results' = [search_results EXCEPT ![p] = FormatResults(results'[p], p)]
    /\ pc' = [pc EXCEPT ![p] = "returned"]
    /\ UNCHANGED <<index, semK, lexK, query, n_results, semDocs, lexDocs,
                   semKUsed, lexKUsed, entryK>>

Step(p) ==
    \/ SetSemK(p)
    \/ SetLexK(p)
    \/ RetrieveSem(p)
    \/ FailSem(p)
    \/ RetrieveLex(p)
    \/ Return(p)

(***************************************************************************)
(* Spec: one call at a time (the runtime the tool is registered with runs  *)
(* one query at a time).  SpecConcurrent: two callers, no serialization.   *)
(***************************************************************************)
SeqCall(q, n) == Call(1, q, n)

Next ==
    \/ Initialize
    \/ \E q \in Queries, n \in NResults : SeqCall(q, n)
    \/ Step(1)

Spec == Init /\ [][Next]_vars

\* Two callers with valid arguments and nothing that serializes them.
ConcurrentCall(p, q, n) == pc[p] = "idle" /\ Call(p, q, n)

NextConcurrent ==
    \/ Initialize
    \/ \E p \in Procs :
        \/ \E q \in Queries \ {"", " "}, n \in 1 .. MaxN : ConcurrentCall(p, q, n)
        \/ Step(p)

SpecConcurrent == Init /\ [][NextConcurrent]_vars

(***************************************************************************)
(* SpecTies: the fusion over a corpus large enough for two documents to    *)
(* reach the same fused score.  With c = 60 the smallest ranks that tie,   *)
(* as floats too, are 5 and 18 against 10 and 5 (both 19/130 of the        *)
(* weights' scale), 87 semantic alone against 3 lexical alone (1/21), and, *)
(* for a content held by two documents, lexical ranks 50 and 105 against   *)
(* lexical rank 6 (1/22).  Semantic rank 3 alone against ranks 24 and 48   *)
(* is equal as a fraction (1/9) and differs by the last bit as a float.    *)
(* The process has been initialized over a collection of 108 items, the    *)
(* first two of equal content.                                             *)
(***************************************************************************)
TieDocs == [i \in 1 .. 108 |-> IF i \in {1, 2} THEN "dup" ELSE ToString(i)] \o <<>>

TieStore == StoreEntry(TieDocs, FALSE, <<>>, {})

Swapped(s, a, b) ==
    [r \in 1 .. Len(s) |-> IF r = a THEN s[b] ELSE IF r = b THEN s[a] ELSE s[r]] \o <<>>

\* documents 7 .. 108 first, then 4, 5, 6, then 1, 2, 3
TieBase ==
    [r \in 1 .. Len(TieDocs) |->
        IF r <= 102 THEN r + 6 ELSE IF r <= 105 THEN r - 99 ELSE r - 105] \o <<>>

\* document 4 at rank 3 and document 5 at rank 88; 93 and 94 after rank 88
LexAbsent ==
    [r \in 1 .. Len(TieDocs) |->
        IF r <= 2 THEN r + 6 ELSE IF r = 3 THEN 4 ELSE IF r <= 87 THEN r + 5
        ELSE IF r = 88 THEN 5 ELSE IF r <= 104 THEN r + 4
        ELSE IF r = 105 THEN 6 ELSE r - 105] \o <<>>

\* document 3 at rank 6, the two documents of equal content at ranks 50 and 105
LexDup ==
    [r \in 1 .. Len(TieDocs) |->
        IF r = 6 THEN 3 ELSE IF r = 50 THEN 1 ELSE IF r = 105 THEN 2
        ELSE IF r > 105 THEN r - 102
        ELSE IF r < 6 THEN r + 6 ELSE IF r < 50 THEN r + 5 ELSE r + 4] \o <<>>

\* document 30 (semantic rank 24) at rank 48, document 9 (semantic rank 3)
\* behind rank 48
LexRounded == Swapped(Swapped(Swapped(TieBase, 3, 48), 48, 24), 24, 54)

\* <<semantic order, lexical order>> of the query "X"
TieIndexes ==
    { <<Swapped(TieBase, 5, 10), Swapped(TieBase, 10, 18)>>,
      <<TieBase, LexAbsent>>,
      <<TieBase, LexDup>>,
      <<TieBase, LexRounded>> }

TieNs == {18, 48, 88, 105}

InitTies ==
    /\ collection = TieStore
    /\ initPc = "ready"
    /\ documents = LoadDocuments(TieStore)
    /\ \E ix \in TieIndexes :
         /\ semRank = [q \in Queries |-> IF Blank(q) THEN Identity(Len(TieDocs)) ELSE ix[1]]
         /\ lexRank = [q \in Queries |-> IF Blank(q) THEN Reversed(Len(TieDocs)) ELSE ix[2]]
    /\ semK = InitialK
    /\ lexK = InitialK
    /\ pc = [p \in Procs |-> "idle"]
    /\ query = [p \in Procs |-> ""]
    /\ n_results = [p \in Procs |-> 0]
    /\ semDocs = [p \in Procs |-> <<>>]
    /\ lexDocs = [p \in Procs |-> <<>>]
    /\ semKUsed = [p \in Procs |-> NoK]
    /\ lexKUsed = [p \in Procs |-> NoK]
    /\ entryK = [p \in Procs |-> <<NoK, NoK>>]
    /\ results = [p \in Procs |-> <<>>]
    /\ search_results = [p \in Procs |-> <<>>]

TieCall(n) == Call(1, "X", n)

NextTies ==
    \/ \E n \in TieNs : TieCall(n)
    \/ Step(1)

SpecTies == InitTies /\ [][NextTies]_vars

(***************************************************************************)
(* Helpers of the properties.                                              *)
(***************************************************************************)
Returned(p) == pc[p] = "returned"
ValidCall(p) == ~Blank(query[p]) /\ n_results[p] > 0
Range(s) == { s[i] : i \in 1 .. Len(s) }
Positions(s, key) == { r \in 1 .. Len(s) : Key(s[r]) = key }

\* Exact arithmetic for the properties: a fraction is <<numerator,
\* denominator>> in lowest terms.
RECURSIVE Gcd(_, _)
Gcd(a, b) == IF b = 0 THEN a ELSE Gcd(b, a % b)

Frac(n, d) == <<n \div Gcd(n, d), d \div Gcd(n, d)>>

FracZero == <<0, 1>>

FracAdd(x, y) ==
    LET g == Gcd(x[2], y[2])
    IN Frac(x[1] * (y[2] \div g) + y[1] * (x[2] \div g), x[2] * (y[2] \div g))

\* x >= y, by comparing the continued fractions (no product of the two
\* denominators is formed)
RECURSIVE FracGeq(_, _)
FracGeq(x, y) ==
    LET qx == x[1] \div x[2]
        qy == y[1] \div y[2]
        rx == x[1] % x[2]
        ry == y[1] % y[2]
    IN IF qx # qy THEN qx > qy
       ELSE IF ry = 0 THEN TRUE
       ELSE IF rx = 0 THEN FALSE
       ELSE FracGeq(<<y[2], ry>>, <<x[2], rx>>)

\* the sum of weight / (r + offset) over the ranks r of S
RECURSIVE SumOver(_, _, _)
SumOver(S, weight, offset) ==
    IF S = {} THEN FracZero
    ELSE LET r == CHOOSE x \in S : TRUE
         IN FracAdd(Frac(weight, r + offset), SumOver(S \ {r}, weight, offset))

\* 0.7 / (r + 60) over the semantic ranks plus 0.3 / (r + 60) over the lexical ranks
Score60(d, sem, lex) ==
    FracAdd(SumOver(Positions(sem, Key(d)), 7, 60), SumOver(Positions(lex, Key(d)), 3, 60))

\* 0.7 / r over the semantic ranks plus 0.3 / r over the lexical ranks
ScoreOfSpec(d, sem, lex) ==
    FracAdd(SumOver(Positions(sem, Key(d)), 7, 0), SumOver(Positions(lex, Key(d)), 3, 0))

DistinctKeys(s) == \A i, j \in 1 .. Len(s) : i # j => Key(s[i]) # Key(s[j])

\* what vector_search(q, n) returns from a freshly initialized process
ExpectedRecords(q, n) ==
    LET fused == WeightedReciprocalRank(PySlice(semRank[q], n), PySlice(lexRank[q], n))
        cut == PySlice(fused, n)
    IN [i \in 1 .. Len(cut) |->
          [content |-> documents[cut[i]].page_content,
           source |-> MetaGet(documents[cut[i]].metadata, "source_file", "Unknown"),
           json_file |-> MetaGet(documents[cut[i]].metadata, "json_file", "Unknown"),
           search_type |-> "hybrid",
           rank |-> i]]

(***************************************************************************)
(* C1  A call with n_results > 0 returns at most n_results records.        *)
(***************************************************************************)
C1_BoundedOutput ==
    \A p \in Procs :
        (Returned(p) /\ n_results[p] > 0) => Len(search_results[p]) <= n_results[p]

\* a returned call whose fused list was longer than n_results
C1_Witness ==
    /\ Returned(1) /\ n_results[1] = 2
    /\ Len(results[1]) > 2 /\ Len(search_results[1]) = 2

(***************************************************************************)
(* C2  A valid call returns exactly min(n_results, |fused list|) records;  *)
(* record i is the projection of the i-th fused entry and has rank i.      *)
(***************************************************************************)
C2_ExactProjection ==
    \A p \in Procs :
        (Returned(p) /\ ValidCall(p)) =>
            /\ Len(search_results[p]) = Min(n_results[p], Len(results[p]))
            /\ \A i \in 1 .. Len(search_results[p]) :
                 /\ search_results[p][i].rank = i
                 /\ search_results[p][i].content = documents[results[p][i]].page_content
                 /\ search_results[p][i].source =
                      (IF documents[results[p][i]].metadata.source_file = Absent
                       THEN "Unknown"
                       ELSE documents[results[p][i]].metadata.source_file)
                 /\ search_results[p][i].json_file =
                      (IF documents[results[p][i]].metadata.json_file = Absent
                       THEN "Unknown"
                       ELSE documents[results[p][i]].metadata.json_file)
                 /\ search_results[p][i].search_type = "hybrid"

\* a returned valid call whose fused list is shorter than n_results
C2_Witness ==
    /\ Returned(1) /\ ValidCall(1) /\ n_results[1] = 3
    /\ Len(results[1]) = 2 /\ Len(search_results[1]) = 2
    /\ search_results[1][2].rank = 2

(***************************************************************************)
(* C3 as amended  No page_content appears twice in a result: documents are *)
(* keyed by content alone.  A document that both retrievers return is one  *)
(* fused entry, documents of different content are never merged, and       *)
(* documents of equal content are one entry, the first of them in the      *)
(* semantic list followed by the lexical list.                             *)
(***************************************************************************)
C3_DedupByContent ==
    \A p \in Procs :
        Returned(p) =>
            LET all == semDocs[p] \o lexDocs[p] IN
            /\ DistinctKeys(results[p])
            /\ \A i, j \in 1 .. Len(search_results[p]) :
                 i # j => search_results[p][i].content # search_results[p][j].content
            /\ { Key(d) : d \in Range(results[p]) } = { Key(d) : d \in Range(all) }
            /\ \A d \in Range(results[p]) :
                 \E r \in 1 .. Len(all) :
                    /\ all[r] = d
                    /\ \A r2 \in 1 .. (r - 1) : Key(all[r2]) # Key(d)

\* a returned call whose two lists share a document and hold two documents
\* of equal content and different metadata
C3_Witness ==
    /\ Returned(1)
    /\ Range(semDocs[1]) \cap Range(lexDocs[1]) # {}
    /\ \E d, e \in Range(semDocs[1]) :
         /\ d # e /\ Key(d) = Key(e)
         /\ documents[d].metadata # documents[e].metadata
    /\ Len(results[1]) = 2

\* C3 as stated: a Chunk is its content and metadata pair; none appears
\* twice and no two distinct Chunks are merged, so every Chunk of the two
\* lists is an entry of the fused list.
C3_Original ==
    \A p \in Procs :
        Returned(p) =>
            /\ \A i, j \in 1 .. Len(results[p]) :
                 i # j => documents[results[p][i]] # documents[results[p][j]]
            /\ \A d \in Range(semDocs[p]) \cup Range(lexDocs[p]) :
                 \E i \in 1 .. Len(results[p]) : documents[results[p][i]] = documents[d]

(***************************************************************************)
(* C4 as amended  The fused score of a document is the sum over the two    *)
(* lists of weight / (r + 60), r its 1-based rank there (0.7 semantic, 0.3 *)
(* lexical, 0 when absent); the output is ordered by that score            *)
(* descending; semantic [A, B] and lexical [C, A] fuse to A, B, C and      *)
(* n_results = 2 returns A at rank 1 and B at rank 2.                      *)
(***************************************************************************)
ScenarioABC(p) ==
    /\ Len(semDocs[p]) = 2 /\ Len(lexDocs[p]) = 2
    /\ lexDocs[p][2] = semDocs[p][1]
    /\ DistinctKeys(<<semDocs[p][1], semDocs[p][2], lexDocs[p][1]>>)

ScenarioOutcome(p) ==
    /\ results[p] = <<semDocs[p][1], semDocs[p][2], lexDocs[p][1]>>
    /\ n_results[p] = 2 =>
         /\ Len(search_results[p]) = 2
         /\ search_results[p][1].content = Key(semDocs[p][1])
         /\ search_results[p][1].rank = 1
         /\ search_results[p][2].content = Key(semDocs[p][2])
         /\ search_results[p][2].rank = 2

\* the exact score of d is strictly more than that of e
ExactlyMore(d, e, sem, lex) == ~FracGeq(Score60(e, sem, lex), Score60(d, sem, lex))

C4_FusedScoreOrder ==
    \A p \in Procs :
        Returned(p) =>
            /\ \A i, j \in 1 .. Len(results[p]) :
                 i < j => FracGeq(Score60(results[p][i], semDocs[p], lexDocs[p]),
                                  Score60(results[p][j], semDocs[p], lexDocs[p]))
            /\ \A d, e \in Range(results[p]) :
                 ExactlyMore(d, e, semDocs[p], lexDocs[p]) =>
                    ~FloatGeq(RrfScore(Key(e), semDocs[p], lexDocs[p]),
                              RrfScore(Key(d), semDocs[p], lexDocs[p]))
            /\ ScenarioABC(p) => ScenarioOutcome(p)

\* the scenario itself: semantic [A, B], lexical [C, A], n_results = 2
C4_Witness ==
    /\ Returned(1) /\ n_results[1] = 2 /\ ScenarioABC(1)
    /\ Len(search_results[1]) = 2

\* C4 as stated: the order is by the sum of weight / r (looked at only
\* for valid calls whose lists hold no two documents of equal content, so
\* that each document has one rank per list)
C4_Original ==
    \A p \in Procs :
        (Returned(p) /\ ValidCall(p)
            /\ DistinctKeys(semDocs[p]) /\ DistinctKeys(lexDocs[p])) =>
            /\ \A i, j \in 1 .. Len(results[p]) :
                 i < j => FracGeq(ScoreOfSpec(results[p][i], semDocs[p], lexDocs[p]),
                                  ScoreOfSpec(results[p][j], semDocs[p], lexDocs[p]))
            /\ ScenarioABC(p) => ScenarioOutcome(p)

(***************************************************************************)
(* C5  In the fused list, and in the returned records, the fused score of  *)
(* an entry is at least that of the entry after it.                        *)
(***************************************************************************)
C5_RankMonotone ==
    \A p \in Procs :
        Returned(p) =>
            /\ \A i \in 1 .. (Len(results[p]) - 1) :
                 FloatGeq(RrfScore(Key(results[p][i]), semDocs[p], lexDocs[p]),
                         RrfScore(Key(results[p][i + 1]), semDocs[p], lexDocs[p]))
            /\ \A i \in 1 .. (Len(search_results[p]) - 1) :
                 FloatGeq(RrfScore(search_results[p][i].content, semDocs[p], lexDocs[p]),
                         RrfScore(search_results[p][i + 1].content, semDocs[p], lexDocs[p]))

\* a returned list led by a document that neither retriever ranks first
C5_Witness ==
    /\ Returned(1) /\ ValidCall(1)
    /\ Len(results[1]) = 3 /\ Len(search_results[1]) = 2
    /\ results[1][1] # semDocs[1][1] /\ results[1][1] # lexDocs[1][1]
    /\ ~FloatGeq(RrfScore(Key(results[1][3]), semDocs[1], lexDocs[1]),
                RrfScore(Key(results[1][1]), semDocs[1], lexDocs[1]))

(***************************************************************************)
(* C6  With one call at a time, what a call returns depends on its query   *)
(* and n_results only, not on the k that earlier calls left behind.        *)
(***************************************************************************)
C6_HistoryIndependent ==
    \A p \in Procs :
        Returned(p) => search_results[p] = ExpectedRecords(query[p], n_results[p])

\* a returned call that found on entry a k left by an earlier call, larger
\* than its own n_results
C6_Witness ==
    /\ Returned(1) /\ ValidCall(1) /\ n_results[1] = 2
    /\ entryK[1] = <<3, 3>>
    /\ Len(search_results[1]) = 2

(***************************************************************************)
(* C7  Two unserialized calls with different n_results race on k: a call's *)
(* retrieval can run with a k that is not its n_results, the two           *)
(* retrievers can run with different k, and the call then returns other    *)
(* records than alone (the witnesses).  What TLC checks of every           *)
(* interleaving: a k a retrieval ran with is the n_results of this call or *)
(* of the other one, and a call returns other records than alone only if   *)
(* one of its retrievals ran with a k that is not its n_results.           *)
(***************************************************************************)
C7_RaceIsOnK ==
    \A p \in Procs :
        /\ semKUsed[p] \notin {NoK, n_results[p]} =>
              \E o \in Procs \ {p} : pc[o] \notin {"idle", "l66"} /\ semKUsed[p] = n_results[o]
        /\ lexKUsed[p] \notin {NoK, n_results[p]} =>
              \E o \in Procs \ {p} : pc[o] \notin {"idle", "l66", "l67"} /\ lexKUsed[p] = n_results[o]
        /\ (Returned(p) /\ search_results[p] # ExpectedRecords(query[p], n_results[p])) =>
              (semKUsed[p] # n_results[p] \/ lexKUsed[p] # n_results[p])

\* a call whose two retrievals ran with different k, one of them not its
\* n_results, and which returned other records than it returns alone
C7_Witness ==
    /\ Returned(1)
    /\ semKUsed[1] # lexKUsed[1]
    /\ semKUsed[1] # n_results[1]
    /\ search_results[1] # ExpectedRecords(query[1], n_results[1])
    /\ Len(search_results[1]) = n_results[1]

\* a call both of whose retrievals ran with the smaller k of the other call
\* and which returned fewer records than it returns alone
C7_WitnessFewer ==
    /\ Returned(1)
    /\ semKUsed[1] < n_results[1] /\ lexKUsed[1] < n_results[1]
    /\ Len(search_results[1]) < Len(ExpectedRecords(query[1], n_results[1]))

(***************************************************************************)
(* C8  With one call at a time, when a call invokes retrieval both         *)
(* retrievers hold k = n_results of that call.                             *)
(***************************************************************************)
C8_KIsNResultsAtRetrieval ==
    \A p \in Procs :
        /\ pc[p] \in {"l78sem", "l78lex"} => (semK = n_results[p] /\ lexK = n_results[p])
        /\ semKUsed[p] # NoK => semKUsed[p] = n_results[p]
        /\ lexKUsed[p] # NoK => lexKUsed[p] = n_results[p]

\* retrieval has run for a call that found another k on entry
C8_Witness ==
    /\ pc[1] = "l80" /\ n_results[1] = 2
    /\ entryK[1] \in {<<InitialK, InitialK>>, <<3, 3>>}
    /\ semKUsed[1] = 2 /\ lexKUsed[1] = 2

(***************************************************************************)
(* C9  A call with an empty or all-whitespace query is rejected: neither   *)
(* retriever runs and nothing is returned.                                 *)
(***************************************************************************)
C9_BlankQueryRejected ==
    \A p \in Procs :
        (pc[p] # "idle" /\ Blank(query[p])) =>
            /\ pc[p] \notin {"l78lex", "l80", "returned"}
            /\ semKUsed[p] = NoK /\ lexKUsed[p] = NoK

(***************************************************************************)
(* C10  A call with n_results <= 0 fails; it does not return a list,       *)
(* empty or not.  (With one call at a time: the k the vector store         *)
(* rejects is the one this call wrote.)                                    *)
(***************************************************************************)
C10_NonPositiveRejected ==
    \A p \in Procs :
        (pc[p] # "idle" /\ n_results[p] <= 0) =>
            /\ ~Returned(p)
            /\ search_results[p] = <<>>

\* vector_search("X", 0) has failed at the semantic retrieval, after it
\* wrote k = 0 to both retrievers
C10_Witness ==
    /\ pc[1] = "failed" /\ query[1] = "X" /\ n_results[1] = 0
    /\ semK = 0 /\ lexK = 0
    /\ Len(documents) = 3

\* the same for a negative n_results
C10_WitnessNegative ==
    /\ pc[1] = "failed" /\ query[1] = "X" /\ n_results[1] < 0
    /\ semK = n_results[1] /\ lexK = n_results[1]
    /\ Len(documents) = 3

(***************************************************************************)
(* C11  Every returned record has a source and a json_file: where the      *)
(* stored metadata has the key, its value; where it lacks the key, where   *)
(* the stored metadata is null and where the store returned no metadata    *)
(* list, the string "Unknown".                                             *)
(***************************************************************************)
StoredValue(d, key) ==
    IF ~collection.hasMetadatas \/ d \in collection.noneAt THEN Absent
    ELSE collection.metadatas[d][key]

FieldFor(d, key) == IF StoredValue(d, key) = Absent THEN "Unknown" ELSE StoredValue(d, key)

C11_NoMissingField ==
    \A p \in Procs :
        Returned(p) =>
            \A i \in 1 .. Len(search_results[p]) :
                /\ search_results[p][i].source # Absent
                /\ search_results[p][i].json_file # Absent
                /\ search_results[p][i].source = FieldFor(results[p][i], "source_file")
                /\ search_results[p][i].json_file = FieldFor(results[p][i], "json_file")

\* a returned list with a record of a Chunk whose stored metadata is null, a
\* record of a Chunk without source_file, and a record with both keys
C11_Witness ==
    /\ Returned(1) /\ Len(search_results[1]) = 3
    /\ \E i \in 1 .. 3 : results[1][i] \in collection.noneAt
                          /\ search_results[1][i].source = "Unknown"
                          /\ search_results[1][i].json_file = "Unknown"
    /\ \E i \in 1 .. 3 : search_results[1][i].source = "Unknown"
                          /\ search_results[1][i].json_file = "j2"
    /\ \E i \in 1 .. 3 : search_results[1][i].source = "s1"

\* a returned record of a store that handed back no metadata list
C11_WitnessNoList ==
    /\ Returned(1) /\ ~collection.hasMetadatas /\ Len(search_results[1]) = 2
    /\ search_results[1][1].source = "Unknown"

C12_WitnessEmptyCorpus ==
    /\ initPc = "aborted" /\ collection.documents = <<>>
    /\ semK = InitialK /\ lexK = NoK
    /\ \A p \in Procs : pc[p] = "idle"

(***************************************************************************)
(* C13  Once the module is initialized, a call changes no shared state but *)
(* the two k: the collection, the corpus and both indices stay as          *)
(* initialization left them (the fusion weights are constants of the       *)
(* ensemble), and after a call, returned or failed, both k are that call's *)
(* n_results: they are not restored.                                       *)
(***************************************************************************)
C13_OnlyKChanges ==
    /\ [][initPc = "ready" =>
            UNCHANGED <<collection, initPc, documents, semRank, lexRank>>]_vars
    /\ [](\A p \in Procs :
            pc[p] \in {"returned", "failed"} =>
                (semK = n_results[p] /\ lexK = n_results[p]))

\* a call whose retrieval failed has left its n_results in both k, which
\* held another value when it was entered
C13_Witness ==
    /\ pc[1] = "failed" /\ n_results[1] = 2
    /\ entryK[1] = <<3, 3>>
    /\ semK = 2 /\ lexK = 2

(***************************************************************************)
(* C14  A call returns the whole projection of its fused list or fails     *)
(* with no records: when the semantic leg raises, the call fails, the      *)
(* lexical leg does not run and nothing is returned.                       *)
(***************************************************************************)
C14_AllOrNothing ==
    \A p \in Procs :
        /\ pc[p] = "failed" =>
             /\ search_results[p] = <<>> /\ results[p] = <<>>
             /\ semKUsed[p] = NoK /\ lexKUsed[p] = NoK /\ lexDocs[p] = <<>>
        /\ Returned(p) =>
             /\ semKUsed[p] # NoK /\ lexKUsed[p] # NoK
             /\ { Key(d) : d \in Range(semDocs[p]) } \subseteq { Key(d) : d \in Range(results[p]) }
             /\ Len(search_results[p]) = Len(PySlice(results[p], n_results[p]))

\* a valid call over a non-empty corpus has failed in its semantic leg
C14_Witness ==
    /\ pc[1] = "failed" /\ ValidCall(1) /\ Len(documents) = 3
    /\ semK = n_results[1] /\ lexK = n_results[1]
    /\ search_results[1] = <<>>

(***************************************************************************)
(* C15 as amended  The fused list is in descending order of the scores as  *)
(* computed in floating point, and of two documents whose computed scores  *)
(* are equal the one that comes first in the semantic list followed by     *)
(* the lexical list comes first: the better semantic rank first, a         *)
(* document of the semantic list before one absent from it, and of two     *)
(* documents absent from the semantic list the one with the better         *)
(* lexical rank; the order of the corpus plays no part.                    *)
(***************************************************************************)
Listed(s, key) == Positions(s, key) # {}
FirstRank(s, key) == CHOOSE r \in Positions(s, key) : \A r2 \in Positions(s, key) : r <= r2

\* rrf_score of the entries of the fused list, as the code computed them
ComputedScores(p) ==
    [i \in 1 .. Len(results[p]) |->
        RrfScore(Key(results[p][i]), semDocs[p], lexDocs[p])] \o <<>>

\* the pairs of positions of the fused list that hold equal scores
TiedPairs(p) ==
    LET n == Len(results[p])
        sc == ComputedScores(p)
    IN { pr \in (1 .. n) \X (1 .. n) : pr[1] < pr[2] /\ sc[pr[1]] = sc[pr[2]] }

C15_TieOrder ==
    \A p \in Procs :
        Returned(p) =>
            /\ LET sc == ComputedScores(p)
               IN \A i \in 1 .. (Len(results[p]) - 1) : FloatGeq(sc[i], sc[i + 1])
            /\ \A pr \in TiedPairs(p) :
                LET a == Key(results[p][pr[1]])
                    b == Key(results[p][pr[2]])
                IN /\ (Listed(semDocs[p], a) /\ Listed(semDocs[p], b)) =>
                        FirstRank(semDocs[p], a) < FirstRank(semDocs[p], b)
                   /\ Listed(semDocs[p], b) => Listed(semDocs[p], a)
                   /\ (~Listed(semDocs[p], a) /\ ~Listed(semDocs[p], b)) =>
                        FirstRank(lexDocs[p], a) < FirstRank(lexDocs[p], b)

\* two returned records tie, both are in the semantic list, and the one
\* with the better semantic rank, later in the corpus, is returned first
C15_Witness ==
    /\ Returned(1)
    /\ \E pr \in TiedPairs(1) :
         /\ pr[2] <= Len(search_results[1])
         /\ Listed(semDocs[1], Key(results[1][pr[1]]))
         /\ Listed(semDocs[1], Key(results[1][pr[2]]))
         /\ results[1][pr[1]] > results[1][pr[2]]

\* two returned records tie and only the first is in the semantic list; it
\* is later in the corpus than the second
C15_WitnessAbsent ==
    /\ Returned(1)
    /\ \E pr \in TiedPairs(1) :
         /\ pr[2] <= Len(search_results[1])
         /\ Listed(semDocs[1], Key(results[1][pr[1]]))
         /\ ~Listed(semDocs[1], Key(results[1][pr[2]]))
         /\ results[1][pr[1]] > results[1][pr[2]]

\* two returned records whose exact scores are equal and whose computed
\* scores are not: the one with the worse semantic rank is returned first
C15_WitnessRounded ==
    /\ Returned(1)
    /\ \E i, j \in 1 .. Len(search_results[1]) :
         /\ i < j
         /\ Score60(results[1][i], semDocs[1], lexDocs[1])
              = Score60(results[1][j], semDocs[1], lexDocs[1])
         /\ ComputedScores(1)[i] # ComputedScores(1)[j]
         /\ Listed(semDocs[1], Key(results[1][i]))
         /\ Listed(semDocs[1], Key(results[1][j]))
         /\ FirstRank(semDocs[1], Key(results[1][i]))
              > FirstRank(semDocs[1], Key(results[1][j]))

\* C15 as stated, for scores equal as the code computes them: the better
\* semantic rank first and, where the semantic list does not decide, the
\* document earlier in the corpus first
C15_Original ==
    \A p \in Procs :
        Returned(p) =>
            \A pr \in TiedPairs(p) :
                LET a == Key(results[p][pr[1]])
                    b == Key(results[p][pr[2]])
                IN /\ (Listed(semDocs[p], a) /\ Listed(semDocs[p], b)) =>
                        FirstRank(semDocs[p], a) < FirstRank(semDocs[p], b)
                   /\ Listed(semDocs[p], b) => Listed(semDocs[p], a)
                   /\ (~Listed(semDocs[p], a) /\ ~Listed(semDocs[p], b)) =>
                        results[p][pr[1]] < results[p][pr[2]]

(***************************************************************************)
(* C16  Once the corpus is loaded it holds one document per item of the    *)
(* collection, in the collection's order, with the item's own metadata or  *)
(* the empty mapping; each index built covers exactly the documents of     *)
(* that corpus, so after initialization both cover the same set.           *)
(***************************************************************************)
ItemMetadata(i) ==
    IF collection.hasMetadatas /\ collection.metadatas # <<>> /\ i \notin collection.noneAt
    THEN collection.metadatas[i]
    ELSE EmptyMeta

C16_OneCorpus ==
    /\ initPc \in {"l36", "l37", "l40", "l44", "ready"} =>
         /\ Len(documents) = Len(collection.documents)
         /\ \A i \in 1 .. Len(documents) :
              /\ documents[i].page_content = collection.documents[i]
              /\ documents[i].metadata = ItemMetadata(i)
    /\ initPc \in {"l37", "l40", "l44", "ready"} =>
         \A q \in Queries : Range(semRank[q]) = 1 .. Len(documents)
    /\ initPc \in {"l44", "ready"} =>
         \A q \in Queries :
            /\ Range(lexRank[q]) = 1 .. Len(documents)
            /\ Range(lexRank[q]) = Range(semRank[q])

\* initialization is through over a collection of three items, one of them
\* without metadata, and the two indices order the documents differently
C16_Witness ==
    /\ initPc = "ready"
    /\ Len(documents) = 3
    /\ collection.noneAt # {}
    /\ documents[1].metadata = Meta("s1", "j1")
    /\ documents[3].metadata = EmptyMeta
    /\ semRank["X"] # lexRank["X"]
    /\ Returned(1) /\ Len(search_results[1]) = 3

(***************************************************************************)
(* C17  A call is entered, and so a result produced, only once the corpus  *)
(* and both retrievers exist; an initialization that failed (store,        *)
(* collection, embedding while the semantic index is built) stays failed,  *)
(* nothing runs it again, and no call ever returns in that process.        *)
(***************************************************************************)
C17_NoServiceBeforeInit ==
    /\ [](\A p \in Procs : pc[p] # "idle" => initPc = "ready")
    /\ [](initPc = "ready" =>
            /\ Len(documents) = Len(collection.documents)
            /\ documents # <<>>
            /\ semK # NoK /\ lexK # NoK
            /\ \A q \in Queries : Len(semRank[q]) = Len(documents)
                                  /\ Len(lexRank[q]) = Len(documents))
    /\ [][initPc = "aborted" => initPc' = "aborted"]_vars
    /\ [](initPc = "aborted" => [](\A p \in Procs : ~Returned(p)))

\* the embedding provider failed while the semantic index was being built
\* over a loaded corpus: no index, no k, no call
C17_Witness ==
    /\ initPc = "aborted"
    /\ Len(documents) = 3
    /\ semRank = NotBuilt /\ semK = NoK
    /\ \A p \in Procs : pc[p] = "idle"

\* the ensemble could not be constructed: the corpus and both retrievers
\* exist, and still no call
C17_WitnessEnsemble ==
    /\ initPc = "aborted"
    /\ Len(documents) = 3
    /\ semK = InitialK /\ lexK = InitialK
    /\ \A q \in Queries : Len(semRank[q]) = 3 /\ Len(lexRank[q]) = 3
    /\ \A p \in Procs : pc[p] = "idle"

\* the store could not be opened: nothing was loaded
C17_WitnessStore ==
    /\ initPc = "aborted"
    /\ Len(collection.documents) = 3 /\ documents = <<>>
    /\ \A p \in Procs : pc[p] = "idle"

(***************************************************************************)
(* C18  With two callers interleaved at will, each with a positive         *)
(* n_results of its own, a call that returns holds at most its own         *)
(* n_results records, numbered 1, 2, ... without a gap, each of            *)
(* search_type "hybrid": the k another call wrote changes what was         *)
(* retrieved, never the bound or the numbering.                            *)
(***************************************************************************)
C18_OwnBoundUnderRace ==
    \A p \in Procs :
        Returned(p) =>
            LET N == Len(search_results[p]) IN
            /\ N <= n_results[p]
            /\ { search_results[p][i].rank : i \in 1 .. N } = 1 .. N
            /\ \A i \in 1 .. N :
                 /\ search_results[p][i].rank = i
                 /\ search_results[p][i].search_type = "hybrid"

\* both calls returned; the first retrieved with the larger k the second
\* had written, fused more documents than it asked for and returned its own
\* n_results of them
C18_Witness ==
    /\ Returned(1) /\ Returned(2)
    /\ n_results[1] < n_results[2]
    /\ semKUsed[1] = n_results[2] /\ lexKUsed[1] = n_results[2]
    /\ Len(results[1]) > n_results[1]
    /\ Len(search_results[1]) = n_results[1]
    /\ search_results[1][n_results[1]].rank = n_results[1]

====
